---- MODULE Spec2Model ----
(***************************************************************************)
(* Model of the login service of cognito-oauth2 (src/main.go): the two     *)
(* HTTP handlers loginWithAppleHandler and loginWithGoogleHandler, the     *)
(* Apple identity-token verification (fetchAppleJWKSet, verifyAppleIDToken *)
(* with the golang-jwt v4 parser it drives) and the Cognito InitiateAuth   *)
(* exchange.  A handler is cut into steps at its outbound calls (the       *)
(* key-set fetch, the Google validation, the exchange), the points where   *)
(* the goroutines of concurrent requests interleave.                       *)
(***************************************************************************)
EXTENDS Integers, FiniteSets, Sequences, TLC

\* ---------------------------------------------------------------- bounds
NumReqs == 2      \* request slots (goroutines of the HTTP server)
MaxTime == 2      \* the clock runs over 1..MaxTime

Reqs  == 1..NumReqs
Times == 1..MaxTime

\* ------------------------------------------------------ JSON claim values
JAbsent == [t |-> "absent", n |-> 0, s |-> ""]
JNum(k) == [t |-> "num", n |-> k, s |-> ""]
JStr(x) == [t |-> "str", n |-> 0, s |-> x]
JArr(x) == [t |-> "arr", n |-> 0, s |-> x]

\* configuration read from the environment
AppleAudience  == "apple-client"      \* os.Getenv("APPLE_CLIENT_ID")
googleClientID == "google-client"     \* os.Getenv("GOOGLE_CLIENT_ID")

ExpValues   == {JAbsent, JStr("soon")} \cup {JNum(k) : k \in 0..(MaxTime + 1)}
AudValues   == {JAbsent, JStr(AppleAudience), JStr(googleClientID), JArr(AppleAudience)}
EmailValues == {JAbsent, JStr("a@x"), JNum(7)}
Algs        == {"ES256", "RS256", "XX999"}
Kids        == {JAbsent, JStr("k1"), JStr("k2")}
KeySets     == {{"k1"}, {"k1", "k2"}}

\* A presented identity token.  wf: three decodable segments; alg/kid: header;
\* sig: the signature verifies under the key the provider published for kid;
\* nbf: the iat/nbf claims are absent or not in the future.
Tokens ==
    [wf : {TRUE}, alg : Algs, kid : Kids, sig : BOOLEAN, nbf : BOOLEAN,
     exp : ExpValues, aud : AudValues, email : EmailValues]
    \cup
    {[wf |-> FALSE, alg |-> "XX999", kid |-> JAbsent, sig |-> FALSE, nbf |-> TRUE,
      exp |-> JAbsent, aud |-> JAbsent, email |-> JAbsent]}

NoToken == [wf |-> FALSE, alg |-> "", kid |-> JAbsent, sig |-> FALSE, nbf |-> TRUE,
            exp |-> JAbsent, aud |-> JAbsent, email |-> JAbsent]

BadBody == [ok |-> FALSE, tok |-> NoToken]
Bodies  == {BadBody} \cup {[ok |-> TRUE, tok |-> t] : t \in Tokens}

\* what the outbound key-set request can come back with
FetchFailed  == [ok |-> FALSE, keys |-> {}]
FetchReplies == {FetchFailed} \cup {[ok |-> TRUE, keys |-> K] : K \in KeySets}

\* what cognito InitiateAuth can come back with: an error, an output carrying an
\* AuthenticationResult, or an output without one (a challenge)
ExchangeReplies == {"error", "result", "challenge"}

VARIABLES req, now
vars == <<req, now>>

\* A handler invocation that is not running: no locals, nothing written.
Idle == [prov |-> "none", pc |-> "idle", bodyOk |-> TRUE, tok |-> NoToken,
         set |-> FetchFailed, reply |-> "none",
         vtime |-> 0, fetches |-> 0, parses |-> 0, lookups |-> 0, exchanges |-> 0,
         verified |-> "pending", kinds |-> {}, username |-> "",
         status |-> 0, outcome |-> "none", writes |-> 0]

Init ==
    /\ req = [r \in Reqs |-> Idle]
    /\ now = 1

\* ------------------------------------------------------------ responses
\* http.Error(w, ..., code): one write of an error body with that status
HttpError(q, code, what) ==
    [q EXCEPT !.pc = "responded", !.status = code, !.outcome = what,
              !.writes = q.writes + 1]

\* json.NewEncoder(w).Encode(...): one write, implicit status 200
Encode(q, what) ==
    [q EXCEPT !.pc = "responded", !.status = 200, !.outcome = what,
              !.writes = q.writes + 1]

\* fmt.Sprintf("%v", v) of a decoded JSON value
SprintV(v) ==
    CASE v.t = "absent" -> "<nil>"
      [] v.t = "str"    -> v.s
      [] v.t = "num"    -> ToString(v.n)
      [] OTHER          -> "[" \o v.s \o "]"

\* ------------------------------------------- golang-jwt v4, as Parse drives it
\* jwt.GetSigningMethod: the registered methods; ES* are *SigningMethodECDSA
RegisteredAlgs == {"ES256", "RS256"}
ECDSAAlgs      == {"ES256"}

\* MapClaims.VerifyExpiresAt(now, false): an absent exp (or the number 0) passes,
\* a number passes iff now is before it, any other type fails
JwtExpOk(tok, t) ==
    CASE tok.exp.t = "absent" -> TRUE
      [] tok.exp.t = "num"    -> (tok.exp.n = 0) \/ (t < tok.exp.n)
      [] OTHER                -> FALSE

\* the Keyfunc handed to jwt.Parse: the error kinds it returns ({} = a key)
KeyFunc(tok, set) ==
    IF tok.alg \notin ECDSAAlgs THEN {"UnsupportedAlgorithm"}
    ELSE IF tok.kid.t # "str" THEN {"UnknownKey"}
    ELSE IF tok.kid.s \notin set.keys THEN {"UnknownKey"}
    ELSE {}

\* whether the Keyfunc got as far as set.LookupKeyID
KeyFuncLooksUp(tok) == tok.alg \in ECDSAAlgs /\ tok.kid.t = "str"

\* jwt.Parse(tokenString, keyFunc): the error kinds ({} = token.Valid)
JwtParse(tok, set, t) ==
    IF ~tok.wf THEN {"MalformedToken"}
    ELSE IF tok.alg \notin RegisteredAlgs THEN {"UnsupportedAlgorithm"}
    ELSE IF KeyFunc(tok, set) # {} THEN KeyFunc(tok, set)
    ELSE (IF JwtExpOk(tok, t) THEN {} ELSE {"TokenExpired"})
         \cup (IF tok.nbf THEN {} ELSE {"TokenNotValidYet"})
         \cup (IF tok.sig THEN {} ELSE {"InvalidSignature"})

\* whether jwt.Parse called the Keyfunc at all
JwtCallsKeyFunc(tok) == tok.wf /\ tok.alg \in RegisteredAlgs

\* the expiry and audience checks verifyAppleIDToken makes itself
AppleClaimErrors(tok, audience, t) ==
    IF tok.exp.t = "num" /\ tok.exp.n < t THEN {"TokenExpired"}
    ELSE IF tok.aud.t = "str" /\ tok.aud.s # audience THEN {"AudienceMismatch"}
    ELSE {}

\* --------------------------------------------------- loginWithAppleHandler
\* AppleStart without the return after the 400: verification starts all the same
AppleStartNoReturn(r, body) ==
    /\ req[r].pc = "idle"
    /\ LET q == [Idle EXCEPT !.prov = "Apple", !.bodyOk = body.ok] IN
       req' = [req EXCEPT ![r] =
               [(IF body.ok THEN q ELSE HttpError(q, 400, "badRequest"))
                EXCEPT !.pc = "fetching", !.tok = body.tok, !.fetches = 1]]
    /\ UNCHANGED now

\* Lines 124-135, 75-76, 66-67: decode the body; on success verifyAppleIDToken
\* starts and its first statement sends the key-set request.
AppleStart(r, body) ==
    /\ req[r].pc = "idle"
    /\ LET q == [Idle EXCEPT !.prov = "Apple", !.bodyOk = body.ok] IN
       req' = [req EXCEPT ![r] =
               IF ~body.ok
               THEN HttpError(q, 400, "badRequest")
               ELSE [q EXCEPT !.pc = "fetching", !.tok = body.tok, !.fetches = 1]]
    /\ UNCHANGED now

\* the handler's failure branch for an error of verifyAppleIDToken (136-139)
AppleVerifyFailed(q, errs) ==
    HttpError([q EXCEPT !.verified = "failed", !.kinds = errs], 401, "authFailure")

\* Lines 67-72, 77-109: jwk.Fetch returns; on success jwt.Parse runs with the
\* fetched set.
AppleFetchReturn(r, reply) ==
    /\ req[r].pc = "fetching"
    /\ LET q    == req[r]
           errs == JwtParse(q.tok, reply, now)
           p    == [q EXCEPT !.set = reply, !.parses = 1, !.vtime = now,
                             !.lookups = IF JwtCallsKeyFunc(q.tok) /\ KeyFuncLooksUp(q.tok)
                                         THEN 1 ELSE 0]
       IN req' = [req EXCEPT ![r] =
                  IF ~reply.ok THEN AppleVerifyFailed(q, {"KeySetFetchFailed"})
                  ELSE IF errs # {} THEN AppleVerifyFailed(p, errs)
                  ELSE [p EXCEPT !.pc = "claims"]]
    /\ UNCHANGED now

\* AppleCheckClaims without the return after the 401: InitiateAuth is called all
\* the same
AppleCheckClaimsNoReturn(r) ==
    /\ req[r].pc = "claims"
    /\ LET q    == req[r]
           errs == AppleClaimErrors(q.tok, AppleAudience, now)
           f    == IF errs # {} THEN AppleVerifyFailed(q, errs)
                   ELSE [q EXCEPT !.verified = "ok"]
       IN req' = [req EXCEPT ![r] =
                  [f EXCEPT !.pc = "exchanging", !.username = SprintV(q.tok.email),
                            !.exchanges = q.exchanges + 1]]
    /\ UNCHANGED now

\* Lines 111-121, 135-151: the handler's own expiry and audience checks against
\* time.Now(); on success the email is formatted and InitiateAuth is called.
AppleCheckClaims(r) ==
    /\ req[r].pc = "claims"
    /\ LET q    == req[r]
           errs == AppleClaimErrors(q.tok, AppleAudience, now)
       IN req' = [req EXCEPT ![r] =
                  IF errs # {} THEN AppleVerifyFailed(q, errs)
                  ELSE [q EXCEPT !.pc = "exchanging", !.verified = "ok",
                                 !.username = SprintV(q.tok.email),
                                 !.exchanges = q.exchanges + 1]]
    /\ UNCHANGED now

\* Lines 152-163: InitiateAuth returns.  An error degrades to the verified-only
\* message; an output without AuthenticationResult is dereferenced (nil) and the
\* handler panics before anything is written.
AppleExchangeReturn(r, reply) ==
    /\ req[r].pc = "exchanging"
    /\ req[r].prov = "Apple"
    /\ LET q == [req[r] EXCEPT !.reply = reply] IN
       req' = [req EXCEPT ![r] =
               CASE reply = "error"  -> Encode(q, "verifiedOnly")
                 [] reply = "result" -> Encode(q, "credentials")
                 [] OTHER            -> [q EXCEPT !.pc = "panicked"]]
    /\ UNCHANGED now

\* -------------------------------------------------- loginWithGoogleHandler
\* idtoken.Validate(ctx, idToken, audience) of google.golang.org/api: the payload
\* is decoded (exp into an integer, aud into a string), audience and expiry are
\* checked, then the algorithm selects the certificate lookup and signature check.
GoogleValidate(tok, audience, t, certs) ==
    IF ~tok.wf \/ tok.exp.t = "str" \/ tok.aud.t = "arr" THEN {"MalformedToken"}
    ELSE IF audience # "" /\ (IF tok.aud.t = "str" THEN tok.aud.s ELSE "") # audience
         THEN {"AudienceMismatch"}
    ELSE IF t > (IF tok.exp.t = "num" THEN tok.exp.n ELSE 0) THEN {"TokenExpired"}
    ELSE IF tok.alg \notin {"RS256", "ES256"} THEN {"UnsupportedAlgorithm"}
    ELSE IF ~certs.ok THEN {"KeySetFetchFailed"}
    ELSE IF (IF tok.kid.t = "str" THEN tok.kid.s ELSE "") \notin certs.keys
         THEN {"UnknownKey"}
    ELSE IF ~tok.sig THEN {"InvalidSignature"}
    ELSE {}

\* Lines 180-191: decode the body; on success idtoken.Validate is called.
GoogleStart(r, body) ==
    /\ req[r].pc = "idle"
    /\ LET q == [Idle EXCEPT !.prov = "Google", !.bodyOk = body.ok] IN
       req' = [req EXCEPT ![r] =
               IF ~body.ok
               THEN HttpError(q, 400, "badRequest")
               ELSE [q EXCEPT !.pc = "validating", !.tok = body.tok, !.parses = 1]]
    /\ UNCHANGED now

\* Lines 191-208: idtoken.Validate returns.  On failure 401; on success the email
\* claim is asserted to be a string (a failed assertion panics) and InitiateAuth
\* is called.
GoogleValidateReturn(r, certs) ==
    /\ req[r].pc = "validating"
    /\ LET q    == req[r]
           errs == GoogleValidate(q.tok, googleClientID, now, certs)
           v    == [q EXCEPT !.verified = "ok", !.vtime = now, !.set = certs]
       IN req' = [req EXCEPT ![r] =
                  IF errs # {}
                  THEN HttpError([q EXCEPT !.verified = "failed", !.kinds = errs,
                                           !.vtime = now],
                                 401, "authFailure")
                  ELSE IF q.tok.email.t # "str" THEN [v EXCEPT !.pc = "panicked"]
                  ELSE [v EXCEPT !.pc = "exchanging", !.username = q.tok.email.s,
                                 !.exchanges = q.exchanges + 1]]
    /\ UNCHANGED now

\* Lines 209-218: InitiateAuth returns.  An error is answered 401; an output
\* without AuthenticationResult is dereferenced (nil) and the handler panics.
GoogleExchangeReturn(r, reply) ==
    /\ req[r].pc = "exchanging"
    /\ req[r].prov = "Google"
    /\ LET q == [req[r] EXCEPT !.reply = reply] IN
       req' = [req EXCEPT ![r] =
               CASE reply = "error"  -> HttpError(q, 401, "exchangeFailure")
                 [] reply = "result" -> Encode(q, "credentials")
                 [] OTHER            -> [q EXCEPT !.pc = "panicked"]]
    /\ UNCHANGED now

\* ---------------------------------------------------------------- server
\* The handler returns (or net/http recovers its panic and drops the connection):
\* the invocation's locals are gone.
Return(r) ==
    /\ req[r].pc \in {"responded", "panicked"}
    /\ req' = [req EXCEPT ![r] = Idle]
    /\ UNCHANGED now

\* time passes
Tick ==
    /\ now < MaxTime
    /\ now' = now + 1
    /\ UNCHANGED req

\* the server has a free goroutine slot for a new request
Free(r) == req[r].pc = "idle"

\* no other handler invocation is running
Alone(r) == \A o \in Reqs \ {r} : req[o].pc = "idle"

Progress(r) ==
    \/ \E reply \in FetchReplies : AppleFetchReturn(r, reply)
    \/ AppleCheckClaims(r)
    \/ \E reply \in ExchangeReplies : AppleExchangeReturn(r, reply)
    \/ \E certs \in FetchReplies : GoogleValidateReturn(r, certs)
    \/ \E reply \in ExchangeReplies : GoogleExchangeReturn(r, reply)
    \/ Return(r)

\* One client at a time, presenting any body.
Next ==
    \/ \E r \in Reqs : Free(r) /\ Alone(r) /\ \E body \in Bodies : AppleStart(r, body)
    \/ \E r \in Reqs : Free(r) /\ Alone(r) /\ \E body \in Bodies : GoogleStart(r, body)
    \/ \E r \in Reqs : Progress(r)
    \/ Tick

Spec == Init /\ [][Next]_vars

\* Concurrent clients: the bodies they present are drawn from a smaller pool.
GoodToken(k) ==
    [wf |-> TRUE, alg |-> "ES256", kid |-> JStr(k), sig |-> TRUE, nbf |-> TRUE,
     exp |-> JNum(MaxTime + 1), aud |-> JStr(AppleAudience), email |-> JStr("a@x")]

ConcBodies ==
    {BadBody}
    \cup {[ok |-> TRUE, tok |-> GoodToken(k)] : k \in {"k1", "k2"}}
    \cup {[ok |-> TRUE, tok |-> [GoodToken("k1") EXCEPT !.aud = JStr(googleClientID)]],
          [ok |-> TRUE, tok |-> [GoodToken("k1") EXCEPT !.exp = JNum(1)]]}

NextConc ==
    \/ \E r \in Reqs : Free(r) /\ \E body \in ConcBodies : AppleStart(r, body)
    \/ \E r \in Reqs : Free(r) /\ \E body \in ConcBodies : GoogleStart(r, body)
    \/ \E r \in Reqs : Progress(r)
    \/ Tick

SpecConc == Init /\ [][NextConc]_vars

\* ================================================================ claims
Running(r)  == req[r].pc # "idle"
Finished(r) == req[r].pc \in {"responded", "panicked"}

\* C1: in both handlers InitiateAuth is called only once verification of the same
\* request has returned success; a request whose verification failed has made no
\* exchange call and is answered 401.
C1_ExchangeOnlyAfterVerified ==
    \A r \in Reqs :
        /\ req[r].exchanges > 0 => req[r].verified = "ok"
        /\ req[r].verified = "failed" =>
               /\ req[r].exchanges = 0
               /\ req[r].pc = "responded"
               /\ req[r].status = 401
               /\ req[r].writes = 1

C1_Witness ==
    \E r \in Reqs :
        /\ req[r].prov = "Apple"
        /\ req[r].verified = "failed"
        /\ req[r].kinds = {"AudienceMismatch"}
        /\ req[r].status = 401
        /\ req[r].exchanges = 0

\* C2: verifyAppleIDToken returns claims only if exp is present and later than the
\* verification time; a token whose only defect is an absent or past exp fails with
\* TokenExpired, and so does a token with a (positive) past exp whatever its
\* signature validity.
C2_KeyResolved(r) ==
    /\ req[r].prov = "Apple"
    /\ req[r].parses = 1
    /\ JwtCallsKeyFunc(req[r].tok)
    /\ KeyFunc(req[r].tok, req[r].set) = {}

C2_ExpPresentAndFuture ==
    \A r \in Reqs :
        /\ (req[r].prov = "Apple" /\ req[r].verified = "ok")
           => req[r].tok.exp.t = "num" /\ req[r].tok.exp.n > req[r].vtime
        /\ ( /\ C2_KeyResolved(r)
             /\ req[r].tok.sig /\ req[r].tok.nbf
             /\ req[r].pc # "claims"
             /\ ~(req[r].tok.exp.t = "num" /\ req[r].tok.exp.n > req[r].vtime) )
           => req[r].verified = "failed" /\ req[r].kinds = {"TokenExpired"}
        /\ ( /\ C2_KeyResolved(r)
             /\ req[r].tok.exp.t = "num"
             /\ req[r].tok.exp.n >= 1 /\ req[r].tok.exp.n < req[r].vtime )
           => req[r].verified = "failed" /\ "TokenExpired" \in req[r].kinds

\* C3: verifyAppleIDToken returns claims only if aud equals the expected audience;
\* a validly signed, unexpired token whose aud differs from it (absent and
\* non-string included) fails with AudienceMismatch.
C3_AudienceMustMatch ==
    \A r \in Reqs :
        req[r].prov = "Apple" =>
            /\ req[r].verified = "ok" => req[r].tok.aud = JStr(AppleAudience)
            /\ ( /\ req[r].verified = "failed"
                 /\ req[r].parses = 1
                 /\ JwtParse(req[r].tok, req[r].set, req[r].vtime) = {}
                 /\ req[r].tok.exp.t = "num" /\ req[r].tok.exp.n > now
                 /\ req[r].tok.aud # JStr(AppleAudience) )
               => req[r].kinds = {"AudienceMismatch"}

\* C4: an Apple token whose declared algorithm is not ECDSA is rejected with
\* UnsupportedAlgorithm, and the request has made no key-set fetch and no key-id
\* lookup.
C4_AlgorithmBeforeKeys ==
    \A r \in Reqs :
        ( /\ req[r].prov = "Apple"
          /\ Running(r) /\ req[r].bodyOk
          /\ req[r].tok.wf
          /\ req[r].tok.alg \notin ECDSAAlgs )
        => /\ req[r].fetches = 0
           /\ req[r].lookups = 0
           /\ req[r].verified # "pending" => req[r].kinds = {"UnsupportedAlgorithm"}

\* C5: a verification whose key id is in the key set makes no outbound key-set
\* fetch; one whose key id is absent makes exactly one and, the key id still
\* absent, fails with UnknownKey.
C5_FetchOnlyOnMiss ==
    \A r \in Reqs :
        ( /\ req[r].prov = "Apple"
          /\ req[r].set.ok
          /\ JwtCallsKeyFunc(req[r].tok) /\ KeyFuncLooksUp(req[r].tok) )
        => IF req[r].tok.kid.s \in req[r].set.keys
           THEN req[r].fetches = 0
           ELSE req[r].fetches = 1 /\ req[r].kinds = {"UnknownKey"}

\* C6: at most one outbound key-set fetch for Apple is in flight at any time.
C6_SingleFlightFetch ==
    Cardinality({r \in Reqs : req[r].prov = "Apple" /\ req[r].pc = "fetching"}) <= 1

\* C7: for both providers, a request whose verification succeeded and whose
\* exchange call returned an error is answered 200 with the verified-only
\* message, never 401.
C7_ExchangeErrorDegrades ==
    \A r \in Reqs :
        (req[r].verified = "ok" /\ req[r].reply = "error")
        => /\ req[r].pc = "responded"
           /\ req[r].status = 200
           /\ req[r].outcome = "verifiedOnly"

\* C8: a request whose body cannot be decoded is answered 400 and makes no
\* key-set fetch, no token parsing or signature verification, no key lookup and
\* no exchange call.
C8_MalformedBodyRejectedFirst ==
    \A r \in Reqs :
        (Running(r) /\ ~req[r].bodyOk)
        => /\ req[r].pc = "responded"
           /\ req[r].status = 400
           /\ req[r].outcome = "badRequest"
           /\ req[r].writes = 1
           /\ req[r].fetches = 0
           /\ req[r].parses = 0
           /\ req[r].lookups = 0
           /\ req[r].exchanges = 0
           /\ req[r].verified = "pending"

C8_Witness ==
    \E r \in Reqs :
        /\ req[r].prov = "Apple"
        /\ ~req[r].bodyOk
        /\ req[r].pc = "responded"
        /\ req[r].status = 400

\* C9: a token validly signed with an allowed algorithm by a key of the fetched
\* set, time-valid and of matching audience is verified, and the username handed
\* to InitiateAuth is the email value of the token's claims.
C9_ValidToken(r) ==
    /\ req[r].set.ok
    /\ req[r].tok.wf /\ req[r].tok.alg = "ES256" /\ req[r].tok.sig /\ req[r].tok.nbf
    /\ req[r].tok.kid.t = "str" /\ req[r].tok.kid.s \in req[r].set.keys
    /\ req[r].tok.exp.t = "num" /\ req[r].tok.exp.n > now
    /\ req[r].tok.aud = JStr(IF req[r].prov = "Apple" THEN AppleAudience
                             ELSE googleClientID)

C9_VerifiedEmailPassedOn ==
    \A r \in Reqs :
        /\ (C9_ValidToken(r) /\ req[r].pc \notin {"fetching", "validating", "claims"})
           => req[r].verified = "ok"
        /\ req[r].verified = "ok" =>
               /\ req[r].exchanges = 1
               /\ JStr(req[r].username) = req[r].tok.email

\* C10: every request ends with exactly one response among 400 malformed body,
\* 401 verification failure, the verified-only message and credentials; the
\* handler never aborts without a response.
C10_AlwaysOneResponse ==
    \A r \in Reqs :
        /\ req[r].pc # "panicked"
        /\ req[r].pc = "responded" =>
               /\ req[r].writes = 1
               /\ req[r].outcome \in
                      {"badRequest", "authFailure", "verifiedOnly", "credentials"}

====
